---- MODULE Spec2Model ----
(***************************************************************************)
(* A model of kvmap's Pathmap (src/src/lib.rs) over its SQLite store layer  *)
(* (src/src/db.rs).                                                         *)
(*                                                                          *)
(* Strings are sequences of one-character strings, so that split_once and   *)
(* SQL LIKE are computed, not assumed.  A namespace is a backing file       *)
(* (an inode holding a kv_store table); the cache `pools` maps namespace    *)
(* names to pool handles.  Every async fn is cut at its await points and    *)
(* at its file-system calls: a caller's position is pc[p].                  *)
(*                                                                          *)
(*   Spec      one caller, one call at a time (sequential runs)             *)
(*   ConcSpec  NumProcs callers whose steps interleave                      *)
(*   PathSpec  one caller passing paths with and without a key              *)
(*   SchedSpec a caller, the background cleanup task and the clock          *)
(*   TouchSpec SchedSpec with the times of the value calls noted            *)
(*   FairSchedSpec  SchedSpec under fair scheduling                         *)
(*   ListSpec  list(path) over the tables a namespace may hold              *)
(***************************************************************************)
EXTENDS Integers, Sequences, FiniteSets, TLC

\* ------------------------------------------------------------- bounds
NumProcs == 2
MaxHandles == 3
MaxInodes == 2
\* calls made in one concurrent run
MaxCalls == 2
\* the clock runs from 0 to MaxTime
MaxTime == 4
\* start_background_cleanup's arguments, in clock units
CheckInterval == 2
IdleTimeout == 1

Procs == 1..NumProcs
Handles == 1..MaxHandles
Inodes == 1..MaxInodes

\* "no file" / "no handle" / "lock free": Option::None and exists() = false
NoFile == 0
NoHandle == 0
NoHolder == 0
\* the background task as a holder of the pools mutex
SchedId == NumProcs + 1
\* "never": no Instant recorded
NoTime == -1

\* ------------------------------------------------------------- strings
\* ASCII case folding, as SQLite's LIKE does for the letters used here
Upper(c) ==
  CASE c = "a" -> "A"
    [] c = "b" -> "B"
    [] c = "n" -> "N"
    [] c = "m" -> "M"
    [] OTHER -> c

\* str::split_once("::"): the first index at which "::" starts, 0 if none
SepIndex(s) ==
  LET hits == {i \in 1..(Len(s) - 1) : s[i] = ":" /\ s[i + 1] = ":"}
  IN  IF hits = {} THEN 0 ELSE CHOOSE i \in hits : \A j \in hits : i <= j

\* Pathmap::parse_path: (ns, key) around the first "::", InvalidPath if none
parse_path(path) ==
  LET i == SepIndex(path)
  IN  IF i = 0
      THEN [ok |-> FALSE, ns |-> <<>>, key |-> <<>>]
      ELSE [ok |-> TRUE,
            ns |-> SubSeq(path, 1, i - 1),
            key |-> SubSeq(path, i + 2, Len(path))]

\* SQLite's `s LIKE pat`: % any run, _ any one character, letters folded
RECURSIVE LikeMatch(_, _)
LikeMatch(pat, s) ==
  IF pat = <<>> THEN s = <<>>
  ELSE IF Head(pat) = "%"
       THEN LikeMatch(Tail(pat), s) \/ (s # <<>> /\ LikeMatch(pat, Tail(s)))
  ELSE IF s = <<>> THEN FALSE
  ELSE IF Head(pat) = "_" THEN LikeMatch(Tail(pat), Tail(s))
  ELSE Upper(Head(pat)) = Upper(Head(s)) /\ LikeMatch(Tail(pat), Tail(s))

\* ------------------------------------------------------------- values
\* A typed value is [ty, v]; v is the text of the value.
IntOne == [ty |-> "int", v |-> <<"1">>]
StrOne == [ty |-> "str", v |-> <<"1">>]
Unit == [ty |-> "unit", v |-> <<>>]
True == [ty |-> "bool", v |-> <<"t">>]
False == [ty |-> "bool", v |-> <<"f">>]
Values == {IntOne, StrOne}
Types == {"int", "str"}

\* serde_json::to_vec: an integer is its digits, a string is put between
\* double quotes (written "q" here)
to_vec(val) ==
  IF val.ty = "str" THEN <<"q">> \o val.v \o <<"q">> ELSE val.v

\* serde_json::from_slice::<T>: the bytes must be JSON of type T
from_slice(ty, bytes) ==
  IF ty = "str"
  THEN IF Len(bytes) >= 2 /\ bytes[1] = "q" /\ bytes[Len(bytes)] = "q"
       THEN [ok |-> TRUE, val |-> [ty |-> "str", v |-> SubSeq(bytes, 2, Len(bytes) - 1)]]
       ELSE [ok |-> FALSE, val |-> Unit]
  ELSE IF Len(bytes) >= 1 /\ \A i \in 1..Len(bytes) : bytes[i] \in {"0", "1", "2"}
       THEN [ok |-> TRUE, val |-> [ty |-> "int", v |-> bytes]]
       ELSE [ok |-> FALSE, val |-> Unit]

\* Result<T>: Ok(value) or Err(variant of PathmapError)
Ok(val) == [ok |-> TRUE, val |-> val, err |-> "none"]
Err(e) == [ok |-> FALSE, val |-> Unit, err |-> e]
NoRes == [ok |-> FALSE, val |-> Unit, err |-> "pending"]
Bool(b) == IF b THEN True ELSE False

\* ------------------------------------------------------------- inputs
Namespaces == {<<"n">>, <<"m">>}

\* the paths the sequential caller passes: bare namespaces, a value "a", a
\* value "a.b" in group "a", "ab" sharing only a string prefix with "a", and
\* "A" differing from "a" in case only
SeqPaths ==
  { <<"n">>, <<"m">>,
    <<"n", ":", ":", "a">>,
    <<"n", ":", ":", "a", ".", "b">>,
    <<"n", ":", ":", "a", "b">>,
    <<"m", ":", ":", "a">>,
    <<"m", ":", ":", "A">> }


NoVal == Unit
Call(kind, path, val, ty) == [kind |-> kind, path |-> path, val |-> val, ty |-> ty]
NoCall == Call("none", <<>>, NoVal, "unit")

\* the public API of Pathmap over a set of paths
Calls(paths) ==
       {Call("init_ns", ns, NoVal, "unit") : ns \in paths \cap Namespaces}
  \cup {Call("delete_ns", ns, NoVal, "unit") : ns \in paths \cap Namespaces}
  \cup {Call("manual_cleanup", ns, NoVal, "unit") : ns \in paths \cap Namespaces}
  \cup {Call("get", path, NoVal, ty) : path \in paths, ty \in Types}
  \cup {Call("set", path, val, "unit") : path \in paths, val \in Values}
  \cup {Call("overwrite", path, val, "unit") : path \in paths, val \in Values}
  \cup {Call("delete", path, NoVal, "unit") : path \in paths}
  \cup {Call("exists", path, NoVal, "unit") : path \in paths}

\* the calls of the sequential caller
SeqCalls == Calls(SeqPaths)

\* the paths of a caller that passes a key, no key after the separator, or
\* no separator
PathPaths ==
  { <<"n">>,
    <<"n", ":", ":">>,
    <<"n", ":", ":", "a">> }
PathCalls == Calls(PathPaths)

\* the calls concurrent callers make: one namespace, one key
ConcNs == <<"n">>
ConcPath == <<"n", ":", ":", "a">>
ConcCalls ==
  { Call("init_ns", ConcNs, NoVal, "unit"),
    Call("delete_ns", ConcNs, NoVal, "unit"),
    Call("manual_cleanup", ConcNs, NoVal, "unit"),
    Call("get", ConcPath, NoVal, "int"),
    Call("set", ConcPath, IntOne, "unit"),
    Call("set", ConcPath, StrOne, "unit"),
    Call("overwrite", ConcPath, IntOne, "unit"),
    Call("overwrite", ConcPath, StrOne, "unit"),
    Call("delete", ConcPath, NoVal, "unit"),
    Call("exists", ConcPath, NoVal, "unit"),
    Call("exists", ConcNs, NoVal, "unit") }

\* ------------------------------------------------------------- state
VARIABLES
  files,    \* namespace -> inode of <base_path>/<ns>.sqlite, NoFile if absent
  store,    \* inode -> the kv_store table: a function key -> value bytes
  pools,    \* Pathmap.pools: namespace -> cached pool handle, NoHandle if none
  hOpen,    \* handle -> the pool has not been closed
  hInode,   \* handle -> the inode its connection holds open
  lock,     \* the holder of the pools mutex, NoHolder if free
  pc,       \* caller -> position in the call it is running
  op,       \* caller -> the call it is running or has last finished
  pool,     \* caller -> the pool handle in its local variable
  again,    \* caller -> it is in get_pool_or_init's second get_pool
  res,      \* caller -> result of its last finished call
  pre,      \* files, pools, store, hOpen as they were when the call started
  ncalls,   \* the number of calls the concurrent callers have made
  lastOk,   \* the last successful write to the path of the current call, if
            \* that path has only been read since
  now,      \* the clock: time::Instant::now()
  spc,      \* position of the background cleanup task, "off" if not started
  nextTick, \* the time at which its interval fires next
  pools_to_check, \* its snapshot of the cache: pairs <<ns, pool>> still to visit
  last_access,    \* its map namespace -> Instant, NoTime if no entry
  cur,      \* the (ns, pool, now) of the loop iteration that is compacting
  vacs,     \* namespace -> start and outcome of its last compaction by the task
  touched,  \* namespace -> when a value call was last made on it
  listing   \* the path and the result of the last list call

sched == <<now, spc, nextTick, pools_to_check, last_access, cur, vacs, touched>>
aux == <<sched, listing>>
vars == <<files, store, pools, hOpen, hInode, lock, pc, op, pool, again, res, pre, lastOk, ncalls, aux>>

Min(s) == CHOOSE x \in s : \A y \in s : x <= y

EmptyTable == [k \in {} |-> <<>>]
Put(t, k, b) == [x \in (DOMAIN t) \cup {k} |-> IF x = k THEN b ELSE t[x]]
Remove(t, k) == [x \in (DOMAIN t) \ {k} |-> t[x]]

Snapshot == [files |-> files, pools |-> pools, store |-> store, hOpen |-> hOpen]

NoWrite == [kind |-> "none", path |-> <<>>, val |-> NoVal]
\* What the finished call c with result r leaves for the call `next` to look
\* back on, `last` being what c itself looked back on: the last successful
\* write to the path of `next` since which that path has only been read (a
\* failed set writes nothing).
Summary(c, r, next, last) ==
  IF c.path # next.path THEN NoWrite
  ELSE IF r.ok /\ c.kind \in {"set", "overwrite", "delete"}
       THEN [kind |-> c.kind, path |-> c.path, val |-> c.val]
  ELSE IF c.kind \in {"get", "exists"} \/ (c.kind = "set" /\ ~r.ok)
       THEN last
  ELSE NoWrite

\* what an earlier run of the program may have left in a namespace's file
InitTables == {EmptyTable, Put(EmptyTable, <<"a">>, to_vec(IntOne))}

NoCur == [ns |-> <<>>, pool |-> NoHandle, now |-> NoTime]
NoVac == [at |-> NoTime, ok |-> TRUE]
NoListing == [path |-> <<>>, ok |-> FALSE, groups |-> <<>>, values |-> <<>>]

\* the clock at 0, the background task at `start` ("off": not started),
\* nothing listed
AuxInit(start) ==
  /\ now = 0
  /\ spc = start
  /\ nextTick = 0
  /\ pools_to_check = {}
  /\ last_access = [n \in Namespaces |-> NoTime]
  /\ cur = NoCur
  /\ vacs = [n \in Namespaces |-> NoVac]
  /\ touched = [n \in Namespaces |-> NoTime]
  /\ listing = NoListing

\* Pathmap::new().with_base_path(..): an empty cache over a directory in which
\* the file of namespace "n" may exist from an earlier run (lib.rs 25-36)
Base ==
  /\ \/ /\ files = [n \in Namespaces |-> NoFile]
        /\ store = [i \in Inodes |-> EmptyTable]
     \/ \E t \in InitTables :
          /\ files = [n \in Namespaces |-> IF n = ConcNs THEN Min(Inodes) ELSE NoFile]
          /\ store = [i \in Inodes |-> IF i = Min(Inodes) THEN t ELSE EmptyTable]
  /\ pools = [n \in Namespaces |-> NoHandle]
  /\ hOpen = [h \in Handles |-> FALSE]
  /\ hInode = [h \in Handles |-> NoFile]
  /\ lock = NoHolder
  /\ pc = [p \in Procs |-> "idle"]
  /\ op = [p \in Procs |-> NoCall]
  /\ pool = [p \in Procs |-> NoHandle]
  /\ again = [p \in Procs |-> FALSE]
  /\ res = [p \in Procs |-> NoRes]
  /\ pre = Snapshot
  /\ lastOk = NoWrite
  /\ ncalls = 0

Init == Base /\ AuxInit("off")

\* ... and start_background_cleanup(CheckInterval, IdleTimeout) has spawned the
\* task, which is at its first interval.tick() (lib.rs 130-137)
SchedInit == Base /\ AuxInit("tick")

\* ------------------------------------------------------------- helpers
\* the namespace and the key a call works on
NsOf(c) ==
  IF c.kind \in {"init_ns", "delete_ns", "manual_cleanup"}
  THEN c.path ELSE parse_path(c.path).ns
KeyOf(c) == parse_path(c.path).key

\* Pathmap::get_db_path(ns).exists()
db_path_exists(f, ns) == ns \in Namespaces /\ f[ns] # NoFile

\* handles referenced by the cache, by a caller's local variable or by the
\* background task's snapshot (a SqlitePool is a counted reference)
LiveHandles(pls, loc, ptc) ==
  ({pls[n] : n \in Namespaces} \cup {loc[q] : q \in Procs} \cup {e[2] : e \in ptc})
    \ {NoHandle}
\* inodes linked as a file or held open by a pool
LiveInodes(f, hi) ==
  ({f[n] : n \in Namespaces} \cup {hi[h] : h \in Handles}) \ {NoFile}

FreeHandles == Handles \ LiveHandles(pools, pool, pools_to_check)
FreeInodes == Inodes \ LiveInodes(files, hInode)

\* A pool is dropped with its last reference and an unlinked file with its last
\* open connection: what nobody refers to is reset.
SettleAll(f, st, pls, ho, hi, loc, ptc) ==
  LET live == LiveHandles(pls, loc, ptc)
      ho2 == [h \in Handles |-> h \in live /\ ho[h]]
      hi2 == [h \in Handles |-> IF h \in live /\ ho[h] THEN hi[h] ELSE NoFile]
      liveI == LiveInodes(f, hi2)
  IN  /\ files' = f
      /\ store' = [i \in Inodes |-> IF i \in liveI THEN st[i] ELSE EmptyTable]
      /\ pools' = pls
      /\ hOpen' = ho2
      /\ hInode' = hi2
      /\ pool' = loc

Settle(f, st, pls, ho, hi, loc) == SettleAll(f, st, pls, ho, hi, loc, pools_to_check)

\* the call of caller p returns r; its locals are dropped
Finish(p, r, f, st, pls, ho, hi) ==
  /\ pc' = [pc EXCEPT ![p] = "done"]
  /\ res' = [res EXCEPT ![p] = r]
  /\ again' = [again EXCEPT ![p] = FALSE]
  /\ Settle(f, st, pls, ho, hi, [pool EXCEPT ![p] = NoHandle])

Goto(p, label) == pc' = [pc EXCEPT ![p] = label] /\ UNCHANGED res

World == <<files, store, pools, hOpen, hInode, pool>>

\* ------------------------------------------------------------- db.rs
\* db::connect: opens the file, creating it (and the table) if it is missing
ConnectEnabled(ns) ==
  FreeHandles # {} /\ (db_path_exists(files, ns) \/ FreeInodes # {})
ConnectInode(ns) == IF db_path_exists(files, ns) THEN files[ns] ELSE Min(FreeInodes)
ConnectHandle == Min(FreeHandles)

\* db::exists as an exact match instead of LIKE '<key>%'
db_exists_exact(t, key) == key \in DOMAIN t

\* db::exists: SELECT COUNT(*) FROM kv_store WHERE key LIKE '<key>%', count > 0
db_exists(t, key) == \E k \in DOMAIN t : LikeMatch(key \o <<"%">>, k)

\* db::get: SELECT value WHERE key = ?, ValueNotFound if there is no row
db_get(t, key) == IF key \in DOMAIN t THEN Ok([ty |-> "bytes", v |-> t[key]]) ELSE Err("ValueNotFound")

\* db::set on a table whose key column is not a PRIMARY KEY
db_set_ok_nokey(t, key) == TRUE

\* db::set: INSERT; key is the PRIMARY KEY, so a second row is refused
db_set_ok(t, key) == key \notin DOMAIN t
db_set(t, key, bytes) == IF db_set_ok(t, key) THEN Put(t, key, bytes) ELSE t

\* db::overwrite as INSERT OR IGNORE: a stored value is kept
db_overwrite_ignore(t, key, bytes) == IF key \in DOMAIN t THEN t ELSE Put(t, key, bytes)

\* db::overwrite: INSERT OR REPLACE
db_overwrite(t, key, bytes) == Put(t, key, bytes)

\* db::delete as DELETE WHERE key LIKE '<key>%'
db_delete_like(t, key) ==
  [x \in {k \in DOMAIN t : ~LikeMatch(key \o <<"%">>, k)} |-> t[x]]

\* db::delete: DELETE WHERE key = ?
db_delete(t, key) == Remove(t, key)

\* db::list_keys without its WHERE clause: every key of the table
db_list_keys_all(t, prefix) == DOMAIN t

\* db::list_keys: SELECT key FROM kv_store WHERE key LIKE '<prefix>%'; the
\* rows come in no stated order
db_list_keys(t, prefix) == {k \in DOMAIN t : LikeMatch(prefix \o <<"%">>, k)}

\* the table a pool handle reads and writes
TableOf(h) == store[hInode[h]]

\* ------------------------------------------------------------- get_pool
AfterPool(kind) ==
  CASE kind = "get" -> "get_query"
    [] kind = "set" -> "set_exists"
    [] kind = "overwrite" -> "ow_query"
    [] kind = "delete" -> "del_query"
    [] kind = "exists" -> "ex_query"
    [] kind = "manual_cleanup" -> "mc_vacuum"

\* get_pool without the check that the file exists: it connects, and connect
\* creates what is missing
GpLock_NoExistsCheck(p) ==
  /\ pc[p] = "gp_lock"
  /\ lock = NoHolder
  /\ LET c == op[p]
         ns == NsOf(c)
     IN  IF ns \in Namespaces /\ pools[ns] # NoHandle
         THEN /\ Goto(p, AfterPool(c.kind))
              /\ pool' = [pool EXCEPT ![p] = pools[ns]]
              /\ UNCHANGED <<files, store, pools, hOpen, hInode, lock, again>>
         ELSE /\ Goto(p, "gp_connect")
              /\ lock' = p
              /\ UNCHANGED <<files, store, pools, hOpen, hInode, pool, again>>
  /\ UNCHANGED <<op, pre, lastOk, ncalls, aux>>

\* get_pool: lock the cache; a cached pool is cloned and returned; otherwise
\* NamespaceNotFound unless the file exists (lib.rs 168-176)
GpLock(p) ==
  /\ pc[p] = "gp_lock"
  /\ lock = NoHolder
  /\ LET c == op[p]
         ns == NsOf(c)
     IN  IF ns \in Namespaces /\ pools[ns] # NoHandle
         THEN /\ Goto(p, AfterPool(c.kind))
              /\ pool' = [pool EXCEPT ![p] = pools[ns]]
              /\ UNCHANGED <<files, store, pools, hOpen, hInode, lock, again>>
         ELSE IF ~db_path_exists(files, ns)
         THEN IF c.kind = "overwrite" /\ ~again[p]
              THEN \* get_pool_or_init: NamespaceNotFound => init_ns (lib.rs 186-187)
                   /\ Goto(p, "in_exists")
                   /\ UNCHANGED <<files, store, pools, hOpen, hInode, pool, lock, again>>
              ELSE /\ Finish(p, Err("NamespaceNotFound"), files, store, pools, hOpen, hInode)
                   /\ UNCHANGED lock
         ELSE /\ Goto(p, "gp_connect")
              /\ lock' = p
              /\ UNCHANGED <<files, store, pools, hOpen, hInode, pool, again>>
  /\ UNCHANGED <<op, pre, lastOk, ncalls, aux>>

\* get_pool that keeps the guard alive after it has returned
GpConnect_KeepLock(p) ==
  /\ pc[p] = "gp_connect"
  /\ lock = p
  /\ LET c == op[p]
         ns == NsOf(c)
         h == ConnectHandle
         i == ConnectInode(ns)
     IN  /\ ConnectEnabled(ns)
         /\ Goto(p, AfterPool(c.kind))
         /\ Settle([files EXCEPT ![ns] = i], store, [pools EXCEPT ![ns] = h],
                   [hOpen EXCEPT ![h] = TRUE], [hInode EXCEPT ![h] = i],
                   [pool EXCEPT ![p] = h])
  /\ UNCHANGED <<lock, op, pre, lastOk, again, ncalls, aux>>

\* get_pool: connect while holding the lock, insert a clone, return (lib.rs 178-180)
GpConnect(p) ==
  /\ pc[p] = "gp_connect"
  /\ lock = p
  /\ LET c == op[p]
         ns == NsOf(c)
         h == ConnectHandle
         i == ConnectInode(ns)
     IN  /\ ConnectEnabled(ns)
         /\ Goto(p, AfterPool(c.kind))
         /\ Settle([files EXCEPT ![ns] = i], store, [pools EXCEPT ![ns] = h],
                   [hOpen EXCEPT ![h] = TRUE], [hInode EXCEPT ![h] = i],
                   [pool EXCEPT ![p] = h])
  /\ lock' = NoHolder
  /\ UNCHANGED <<op, pre, lastOk, again, ncalls, aux>>

\* ------------------------------------------------------------- init_ns
\* init_ns without the check that the file exists
InExists_NoCheck(p) ==
  /\ pc[p] = "in_exists"
  /\ Goto(p, "in_connect")
  /\ UNCHANGED <<files, store, pools, hOpen, hInode, pool, again>>
  /\ UNCHANGED <<lock, op, pre, lastOk, ncalls, aux>>

\* init_ns: NamespaceAlreadyExists if the file exists (lib.rs 41-44)
InExists(p) ==
  /\ pc[p] = "in_exists"
  /\ LET ns == NsOf(op[p])
     IN  IF db_path_exists(files, ns)
         THEN Finish(p, Err("NamespaceAlreadyExists"), files, store, pools, hOpen, hInode)
         ELSE /\ Goto(p, "in_connect")
              /\ UNCHANGED <<files, store, pools, hOpen, hInode, pool, again>>
  /\ UNCHANGED <<lock, op, pre, lastOk, ncalls, aux>>

\* init_ns: db::connect, outside the lock (lib.rs 45)
InConnect(p) ==
  /\ pc[p] = "in_connect"
  /\ LET ns == NsOf(op[p])
         h == ConnectHandle
         i == ConnectInode(ns)
     IN  /\ ConnectEnabled(ns)
         /\ Goto(p, "in_insert")
         /\ Settle([files EXCEPT ![ns] = i], store, pools,
                   [hOpen EXCEPT ![h] = TRUE], [hInode EXCEPT ![h] = i],
                   [pool EXCEPT ![p] = h])
  /\ UNCHANGED <<lock, op, pre, lastOk, again, ncalls, aux>>

\* init_ns: lock, insert the pool (replacing any cached one), Ok(true)
\* (lib.rs 46-48); from get_pool_or_init, go on to the second get_pool (188)
InInsert(p) ==
  /\ pc[p] = "in_insert"
  /\ lock = NoHolder
  /\ LET c == op[p]
         ns == NsOf(c)
         pls == [pools EXCEPT ![ns] = pool[p]]
     IN  IF c.kind = "init_ns"
         THEN Finish(p, Ok(True), files, store, pls, hOpen, hInode)
         ELSE /\ Goto(p, "gp_lock")
              /\ again' = [again EXCEPT ![p] = TRUE]
              /\ Settle(files, store, pls, hOpen, hInode, [pool EXCEPT ![p] = NoHandle])
  /\ UNCHANGED <<lock, op, pre, lastOk, ncalls, aux>>

\* ------------------------------------------------------------- delete_ns
\* delete_ns with pools.get in place of pools.remove: the pool is closed but
\* stays in the cache
DnLock_Get(p) ==
  /\ pc[p] = "dn_lock"
  /\ lock = NoHolder
  /\ LET ns == NsOf(op[p])
     IN  IF pools[ns] # NoHandle
         THEN /\ Goto(p, "dn_close")
              /\ lock' = p
              /\ Settle(files, store, pools, hOpen, hInode, [pool EXCEPT ![p] = pools[ns]])
         ELSE /\ Goto(p, "dn_exists")
              /\ UNCHANGED <<files, store, pools, hOpen, hInode, pool, lock>>
  /\ UNCHANGED <<op, pre, lastOk, again, ncalls, aux>>

\* delete_ns: lock, take the pool out of the cache (lib.rs 54-55)
DnLock(p) ==
  /\ pc[p] = "dn_lock"
  /\ lock = NoHolder
  /\ LET ns == NsOf(op[p])
     IN  IF pools[ns] # NoHandle
         THEN /\ Goto(p, "dn_close")
              /\ lock' = p
              /\ Settle(files, store, [pools EXCEPT ![ns] = NoHandle], hOpen, hInode,
                        [pool EXCEPT ![p] = pools[ns]])
         ELSE /\ Goto(p, "dn_exists")
              /\ UNCHANGED <<files, store, pools, hOpen, hInode, pool, lock>>
  /\ UNCHANGED <<op, pre, lastOk, again, ncalls, aux>>

\* delete_ns: pool.close().await while holding the lock, then unlock (lib.rs 56-58)
DnClose(p) ==
  /\ pc[p] = "dn_close"
  /\ lock = p
  /\ Goto(p, "dn_exists")
  /\ Settle(files, store, pools, [hOpen EXCEPT ![pool[p]] = FALSE], hInode,
            [pool EXCEPT ![p] = NoHandle])
  /\ lock' = NoHolder
  /\ UNCHANGED <<op, pre, lastOk, again, ncalls, aux>>

\* delete_ns: NamespaceNotFound unless the file exists (lib.rs 59-62)
DnExists(p) ==
  /\ pc[p] = "dn_exists"
  /\ IF ~db_path_exists(files, NsOf(op[p]))
     THEN Finish(p, Err("NamespaceNotFound"), files, store, pools, hOpen, hInode)
     ELSE /\ Goto(p, "dn_remove")
          /\ UNCHANGED <<files, store, pools, hOpen, hInode, pool, again>>
  /\ UNCHANGED <<lock, op, pre, lastOk, ncalls, aux>>

\* delete_ns: std::fs::remove_file(db_path)?, Ok(true) (lib.rs 63-64)
DnRemove(p) ==
  /\ pc[p] = "dn_remove"
  /\ LET ns == NsOf(op[p])
     IN  IF ~db_path_exists(files, ns)
         THEN Finish(p, Err("IoError"), files, store, pools, hOpen, hInode)
         ELSE Finish(p, Ok(True), [files EXCEPT ![ns] = NoFile], store, pools, hOpen, hInode)
  /\ UNCHANGED <<lock, op, pre, lastOk, ncalls, aux>>

\* ------------------------------------------------------------- values
\* get, set, overwrite, delete: parse_path(path)?, then get_pool
\* (lib.rs 75-76, 85-86, 97-98, 105-106)
Parse(p) ==
  /\ pc[p] = "parse"
  /\ IF ~parse_path(op[p].path).ok
     THEN Finish(p, Err("InvalidPath"), files, store, pools, hOpen, hInode)
     ELSE /\ Goto(p, "gp_lock")
          /\ UNCHANGED <<files, store, pools, hOpen, hInode, pool, again>>
  /\ UNCHANGED <<lock, op, pre, lastOk, ncalls, aux>>

\* a statement on a closed pool fails with sqlx's PoolClosed
PoolUsable(h) == hOpen[h]

\* get: db::get, then serde_json::from_slice (lib.rs 77-79)
GetResult(h, c) ==
  IF ~PoolUsable(h) THEN Err("DatabaseError")
  ELSE LET raw == db_get(TableOf(h), KeyOf(c))
       IN  IF ~raw.ok THEN raw
           ELSE LET d == from_slice(c.ty, raw.val.v)
                IN  IF d.ok THEN Ok(d.val) ELSE Err("JsonError")

GetQuery(p) ==
  /\ pc[p] = "get_query"
  /\ Finish(p, GetResult(pool[p], op[p]), files, store, pools, hOpen, hInode)
  /\ UNCHANGED <<lock, op, pre, lastOk, ncalls, aux>>

\* set without the existence check: straight to the INSERT
SetExists_NoCheck(p) ==
  /\ pc[p] = "set_exists"
  /\ IF ~PoolUsable(pool[p])
     THEN Finish(p, Err("DatabaseError"), files, store, pools, hOpen, hInode)
     ELSE /\ Goto(p, "set_insert")
          /\ UNCHANGED <<files, store, pools, hOpen, hInode, pool, again>>
  /\ UNCHANGED <<lock, op, pre, lastOk, ncalls, aux>>

\* set: ValueAlreadyExists if db::exists (lib.rs 87-89)
SetExists(p) ==
  /\ pc[p] = "set_exists"
  /\ LET h == pool[p]
     IN  IF ~PoolUsable(h)
         THEN Finish(p, Err("DatabaseError"), files, store, pools, hOpen, hInode)
         ELSE IF db_exists(TableOf(h), KeyOf(op[p]))
         THEN Finish(p, Err("ValueAlreadyExists"), files, store, pools, hOpen, hInode)
         ELSE /\ Goto(p, "set_insert")
              /\ UNCHANGED <<files, store, pools, hOpen, hInode, pool, again>>
  /\ UNCHANGED <<lock, op, pre, lastOk, ncalls, aux>>

\* set: serde_json::to_vec, db::set (lib.rs 90-91)
SetInsert(p) ==
  /\ pc[p] = "set_insert"
  /\ LET h == pool[p]
         key == KeyOf(op[p])
     IN  IF ~PoolUsable(h) \/ ~db_set_ok(TableOf(h), key)
         THEN Finish(p, Err("DatabaseError"), files, store, pools, hOpen, hInode)
         ELSE Finish(p, Ok(Unit), files,
                     [store EXCEPT ![hInode[h]] = db_set(@, key, to_vec(op[p].val))],
                     pools, hOpen, hInode)
  /\ UNCHANGED <<lock, op, pre, lastOk, ncalls, aux>>

\* overwrite: serde_json::to_vec, db::overwrite (lib.rs 99-100)
OwQuery(p) ==
  /\ pc[p] = "ow_query"
  /\ LET h == pool[p]
     IN  IF ~PoolUsable(h)
         THEN Finish(p, Err("DatabaseError"), files, store, pools, hOpen, hInode)
         ELSE Finish(p, Ok(Unit), files,
                     [store EXCEPT ![hInode[h]] = db_overwrite(@, KeyOf(op[p]), to_vec(op[p].val))],
                     pools, hOpen, hInode)
  /\ UNCHANGED <<lock, op, pre, lastOk, ncalls, aux>>

\* delete: db::delete (lib.rs 107)
DelQuery(p) ==
  /\ pc[p] = "del_query"
  /\ LET h == pool[p]
     IN  IF ~PoolUsable(h)
         THEN Finish(p, Err("DatabaseError"), files, store, pools, hOpen, hInode)
         ELSE Finish(p, Ok(Unit), files,
                     [store EXCEPT ![hInode[h]] = db_delete(@, KeyOf(op[p]))],
                     pools, hOpen, hInode)
  /\ UNCHANGED <<lock, op, pre, lastOk, ncalls, aux>>

\* exists: with "::", false unless the namespace's file exists, else get_pool;
\* without, whether a file of that name exists (lib.rs 112-120)
ExParse(p) ==
  /\ pc[p] = "ex_parse"
  /\ LET path == op[p].path
         pr == parse_path(path)
     IN  IF pr.ok
         THEN IF db_path_exists(files, pr.ns)
              THEN /\ Goto(p, "gp_lock")
                   /\ UNCHANGED <<files, store, pools, hOpen, hInode, pool, again>>
              ELSE Finish(p, Ok(False), files, store, pools, hOpen, hInode)
         ELSE Finish(p, Ok(Bool(db_path_exists(files, path))), files, store, pools, hOpen, hInode)
  /\ UNCHANGED <<lock, op, pre, lastOk, ncalls, aux>>

\* exists: db::exists (lib.rs 115)
ExQuery(p) ==
  /\ pc[p] = "ex_query"
  /\ LET h == pool[p]
     IN  IF ~PoolUsable(h)
         THEN Finish(p, Err("DatabaseError"), files, store, pools, hOpen, hInode)
         ELSE Finish(p, Ok(Bool(db_exists(TableOf(h), KeyOf(op[p])))),
                     files, store, pools, hOpen, hInode)
  /\ UNCHANGED <<lock, op, pre, lastOk, ncalls, aux>>

\* manual_cleanup: db::vacuum (lib.rs 126)
McVacuum(p) ==
  /\ pc[p] = "mc_vacuum"
  /\ IF ~PoolUsable(pool[p])
     THEN Finish(p, Err("DatabaseError"), files, store, pools, hOpen, hInode)
     ELSE Finish(p, Ok(Unit), files, store, pools, hOpen, hInode)
  /\ UNCHANGED <<lock, op, pre, lastOk, ncalls, aux>>

\* ------------------------------------------------------------- list
\* Pathmap::list is called by examples/list.rs but is not part of lib.rs; it
\* is modelled after section 4.5 of the specification, over db::list_keys.

\* the first index of the group separator "." in s, 0 if none
DotIndex(s) ==
  LET hits == {i \in 1..Len(s) : s[i] = "."}
  IN  IF hits = {} THEN 0 ELSE CHOOSE i \in hits : \A j \in hits : i <= j

\* the namespace of a listed path: the path itself if it has no "::"
ListNs(path) == IF SepIndex(path) = 0 THEN path ELSE parse_path(path).ns

\* the key prefix of a listed path: nothing for a namespace's root, the group
\* path and a separator for a group
ListPrefix(path) ==
  LET g == IF SepIndex(path) = 0 THEN <<>> ELSE parse_path(path).key
  IN  IF g = <<>> THEN <<>> ELSE g \o <<".">>

\* a Vec kept free of duplicates
PushNew(seq, x) ==
  IF \E i \in 1..Len(seq) : seq[i] = x THEN seq ELSE Append(seq, x)

\* strip the prefix of each key; a remainder with a further separator gives
\* its first segment to groups, any other remainder goes to values
RECURSIVE Classify(_, _, _)
Classify(keys, prefix, acc) ==
  IF keys = <<>> THEN acc
  ELSE LET rest == SubSeq(Head(keys), Len(prefix) + 1, Len(Head(keys)))
           d == DotIndex(rest)
       IN  Classify(Tail(keys), prefix,
                    IF d > 0
                    THEN [acc EXCEPT !.groups = PushNew(@, SubSeq(rest, 1, d - 1))]
                    ELSE [acc EXCEPT !.values = PushNew(@, rest)])

\* the orders in which the rows of a query may come
Orders(S) ==
  {f \in [1..Cardinality(S) -> S] :
     \A i, j \in 1..Cardinality(S) : i # j => f[i] # f[j]}

\* list(path): resolve the namespace, scan the keys under the prefix, classify
List(path) ==
  /\ LET ns == ListNs(path)
     IN  IF ns \notin Namespaces \/ pools[ns] = NoHandle
         THEN listing' = [NoListing EXCEPT !.path = path]
         ELSE \E keys \in Orders(db_list_keys(TableOf(pools[ns]), ListPrefix(path))) :
                listing' = Classify(keys, ListPrefix(path),
                                    [path |-> path, ok |-> TRUE,
                                     groups |-> <<>>, values |-> <<>>])
  /\ UNCHANGED <<World, lock, pc, op, again, res, pre, lastOk, ncalls, sched>>

\* ------------------------------------------------------------- background task
\* what the background task does not touch
callers == <<pc, op, again, res, pre, lastOk, ncalls, touched, listing>>

\* time passes
Advance ==
  /\ now < MaxTime
  /\ now' = now + 1
  /\ UNCHANGED <<World, lock, callers>>
  /\ UNCHANGED <<spc, nextTick, pools_to_check, last_access, cur, vacs>>

\* interval.tick().await returns: at once the first time, then every
\* check_interval, missed ticks being caught up (lib.rs 134, 137)
SchedTick ==
  /\ spc = "tick"
  /\ now >= nextTick
  /\ spc' = "lock"
  /\ nextTick' = nextTick + CheckInterval
  /\ UNCHANGED <<World, lock, callers>>
  /\ UNCHANGED <<now, pools_to_check, last_access, cur, vacs>>

\* pools.lock().await (lib.rs 138-139)
SchedLock ==
  /\ spc = "lock"
  /\ lock = NoHolder
  /\ lock' = SchedId
  /\ spc' = "snapshot"
  /\ UNCHANGED <<World, callers>>
  /\ UNCHANGED <<now, nextTick, pools_to_check, last_access, cur, vacs>>

\* the cache is cloned into pools_to_check and the guard, a temporary of the
\* statement, is dropped (lib.rs 138-143)
SchedSnapshot ==
  /\ spc = "snapshot"
  /\ lock = SchedId
  /\ pools_to_check' = {<<n, pools[n]>> : n \in {m \in Namespaces : pools[m] # NoHandle}}
  /\ lock' = NoHolder
  /\ spc' = "la_lock"
  /\ UNCHANGED <<World, callers>>
  /\ UNCHANGED <<now, nextTick, last_access, cur, vacs>>

\* last_access.lock().await: only the task ever takes this mutex (lib.rs 145)
SchedLaLock ==
  /\ spc = "la_lock"
  /\ spc' = "loop"
  /\ UNCHANGED <<World, lock, callers>>
  /\ UNCHANGED <<now, nextTick, pools_to_check, last_access, cur, vacs>>

\* one iteration of `for (ns, pool) in pools_to_check`, in the map's arbitrary
\* order: now, entry(ns).or_insert(now), and db::vacuum is called if
\* now - last > idle_timeout; after the last iteration the guard is dropped
\* and the task waits for the next tick (lib.rs 147-152, 158-159)
SchedLoop ==
  /\ spc = "loop"
  /\ IF pools_to_check = {}
     THEN /\ spc' = "tick"
          /\ UNCHANGED <<World, pools_to_check, last_access, cur>>
     ELSE \E e \in pools_to_check :
            LET ns == e[1]
                last == IF last_access[ns] = NoTime THEN now ELSE last_access[ns]
            IN  /\ last_access' = [last_access EXCEPT ![ns] = last]
                /\ IF now - last > IdleTimeout
                   THEN /\ spc' = "vacuum"
                        /\ cur' = [ns |-> ns, pool |-> e[2], now |-> now]
                        /\ UNCHANGED <<World, pools_to_check>>
                   ELSE /\ spc' = "loop"
                        /\ pools_to_check' = pools_to_check \ {e}
                        /\ SettleAll(files, store, pools, hOpen, hInode, pool,
                                     pools_to_check \ {e})
                        /\ UNCHANGED cur
  /\ UNCHANGED <<lock, callers, now, nextTick, vacs>>

\* the task with `db::vacuum(&pool).await?` in place of the `if let Err`: an
\* error ends the task before the marker is reset
SchedVacuum_Fatal ==
  /\ spc = "vacuum"
  /\ LET rest == IF PoolUsable(cur.pool)
                 THEN pools_to_check \ {<<cur.ns, cur.pool>>} ELSE {}
     IN  /\ vacs' = [vacs EXCEPT ![cur.ns] = [at |-> cur.now, ok |-> PoolUsable(cur.pool)]]
         /\ last_access' = IF PoolUsable(cur.pool)
                           THEN [last_access EXCEPT ![cur.ns] = cur.now]
                           ELSE last_access
         /\ pools_to_check' = rest
         /\ SettleAll(files, store, pools, hOpen, hInode, pool, rest)
         /\ spc' = IF PoolUsable(cur.pool) THEN "loop" ELSE "stopped"
  /\ cur' = NoCur
  /\ UNCHANGED <<lock, callers, now, nextTick>>

\* db::vacuum(&pool).await returns, an error is printed; *last = now with the
\* now of this iteration; the iteration's pool is dropped (lib.rs 153-157)
SchedVacuum ==
  /\ spc = "vacuum"
  /\ LET rest == pools_to_check \ {<<cur.ns, cur.pool>>}
     IN  /\ vacs' = [vacs EXCEPT ![cur.ns] = [at |-> cur.now, ok |-> PoolUsable(cur.pool)]]
         /\ last_access' = [last_access EXCEPT ![cur.ns] = cur.now]
         /\ pools_to_check' = rest
         /\ SettleAll(files, store, pools, hOpen, hInode, pool, rest)
  /\ cur' = NoCur
  /\ spc' = "loop"
  /\ UNCHANGED <<lock, callers, now, nextTick>>

\* ------------------------------------------------------------- callers
\* where a call starts
Start(kind) ==
  CASE kind = "init_ns" -> "in_exists"
    [] kind = "delete_ns" -> "dn_lock"
    [] kind = "manual_cleanup" -> "gp_lock"
    [] kind = "exists" -> "ex_parse"
    [] OTHER -> "parse"

Resting(p) == pc[p] \in {"idle", "done"}

\* a caller invokes c
Invoke(p, c) ==
  /\ Resting(p)
  /\ op' = [op EXCEPT ![p] = c]
  /\ pc' = [pc EXCEPT ![p] = Start(c.kind)]
  /\ res' = [res EXCEPT ![p] = NoRes]
  /\ UNCHANGED <<files, store, pools, hOpen, hInode, pool, lock, again>>

\* the sequential caller: the next call starts when the last has returned
SeqCall(c) ==
  /\ \A q \in Procs : Resting(q)
  /\ Invoke(1, c)
  /\ pre' = Snapshot
  /\ lastOk' = Summary(op[1], res[1], c, lastOk)
  /\ UNCHANGED <<ncalls, aux>>

\* a concurrent caller starts a call whatever the others are doing
ConcCall(p, c) ==
  /\ ncalls < MaxCalls
  /\ Invoke(p, c)
  /\ ncalls' = ncalls + 1
  /\ UNCHANGED <<pre, lastOk, aux>>

Step(p) ==
  \/ GpLock(p) \/ GpConnect(p)
  \/ InExists(p) \/ InConnect(p) \/ InInsert(p)
  \/ DnLock(p) \/ DnClose(p) \/ DnExists(p) \/ DnRemove(p)
  \/ Parse(p) \/ GetQuery(p) \/ SetExists(p) \/ SetInsert(p)
  \/ OwQuery(p) \/ DelQuery(p) \/ ExParse(p) \/ ExQuery(p) \/ McVacuum(p)

Next ==
  \/ \E c \in SeqCalls : SeqCall(c)
  \/ \E p \in Procs : Step(p)

Spec == Init /\ [][Next]_vars

ConcNext ==
  \/ \E p \in Procs, c \in ConcCalls : ConcCall(p, c)
  \/ \E p \in Procs : Step(p)

ConcSpec == Init /\ [][ConcNext]_vars

\* the calls made while the background task runs
SchedCalls ==
  { Call("init_ns", ConcNs, NoVal, "unit"),
    Call("delete_ns", ConcNs, NoVal, "unit"),
    Call("manual_cleanup", ConcNs, NoVal, "unit"),
    Call("get", ConcPath, NoVal, "int"),
    Call("set", ConcPath, IntOne, "unit"),
    Call("overwrite", ConcPath, IntOne, "unit"),
    Call("delete", ConcPath, NoVal, "unit"),
    Call("exists", ConcPath, NoVal, "unit") }

\* the caller starts its next call while the task runs
CallNow(c) ==
  /\ ncalls < MaxCalls
  /\ \A q \in Procs : Resting(q)
  /\ Invoke(1, c)
  /\ ncalls' = ncalls + 1
  /\ UNCHANGED <<pre, lastOk, listing>>
  /\ UNCHANGED <<now, spc, nextTick, pools_to_check, last_access, cur, vacs>>

SchedCall(c) == CallNow(c) /\ UNCHANGED touched

\* ... and the time of a get, set, overwrite, delete or exists is noted
TouchCall(c) ==
  /\ CallNow(c)
  /\ touched' = IF c.kind \in {"get", "set", "overwrite", "delete", "exists"}
                THEN [touched EXCEPT ![NsOf(c)] = now]
                ELSE touched

SchedNext ==
  \/ \E c \in SchedCalls : SchedCall(c)
  \/ \E p \in Procs : Step(p)
  \/ Advance
  \/ SchedTick \/ SchedLock \/ SchedSnapshot \/ SchedLaLock \/ SchedLoop \/ SchedVacuum

SchedSpec == SchedInit /\ [][SchedNext]_vars

\* SchedSpec with the times of the value calls noted
TouchNext ==
  \/ \E c \in SchedCalls : TouchCall(c)
  \/ \E p \in Procs : Step(p)
  \/ Advance
  \/ SchedTick \/ SchedLock \/ SchedSnapshot \/ SchedLaLock \/ SchedLoop \/ SchedVacuum

TouchSpec == SchedInit /\ [][TouchNext]_vars

\* the steps of the background task
SchedStep ==
  SchedTick \/ SchedLock \/ SchedSnapshot \/ SchedLaLock \/ SchedLoop \/ SchedVacuum

\* fair scheduling: a caller's call and the background task are tokio tasks
\* that are polled whenever they can make progress, and every store I/O
\* call returns
FairSchedSpec ==
  /\ SchedSpec
  /\ \A p \in Procs : WF_vars(Step(p))
  /\ WF_vars(SchedStep)

\* the keys a listed namespace may hold: values "b", "c" in group "a", a
\* value in group "a.b", values "d" and "a" at the root, and "ab", which only
\* shares a string prefix with group "a"
ListKeys ==
  { <<"a", ".", "b">>, <<"a", ".", "c">>, <<"a", ".", "b", ".", "c">>,
    <<"d">>, <<"a">>, <<"a", "b">> }
ListTables == {[k \in ks |-> to_vec(IntOne)] : ks \in SUBSET ListKeys}
ListPaths ==
  { <<"n">>, <<"m">>,
    <<"n", ":", ":", "a">>,
    <<"n", ":", ":", "a", ".", "b">> }

\* namespace "n" has been written to: its file holds some table and its pool
\* is cached (examples/list.rs 27-42)
ListInit ==
  /\ \E t \in ListTables :
       store = [i \in Inodes |-> IF i = Min(Inodes) THEN t ELSE EmptyTable]
  /\ files = [n \in Namespaces |-> IF n = ConcNs THEN Min(Inodes) ELSE NoFile]
  /\ pools = [n \in Namespaces |-> IF n = ConcNs THEN Min(Handles) ELSE NoHandle]
  /\ hOpen = [h \in Handles |-> h = Min(Handles)]
  /\ hInode = [h \in Handles |-> IF h = Min(Handles) THEN Min(Inodes) ELSE NoFile]
  /\ lock = NoHolder
  /\ pc = [p \in Procs |-> "idle"]
  /\ op = [p \in Procs |-> NoCall]
  /\ pool = [p \in Procs |-> NoHandle]
  /\ again = [p \in Procs |-> FALSE]
  /\ res = [p \in Procs |-> NoRes]
  /\ pre = Snapshot
  /\ lastOk = NoWrite
  /\ ncalls = 0
  /\ AuxInit("off")

ListNext == \E path \in ListPaths : List(path)

ListSpec == ListInit /\ [][ListNext]_vars

PathNext ==
  \/ \E c \in PathCalls : SeqCall(c)
  \/ \E p \in Procs : Step(p)

PathSpec == Init /\ [][PathNext]_vars

\* ===================================================================
\* Properties of sequential runs (Spec): the single caller is caller 1,
\* `pre` is the state in which its current call started.
\* ===================================================================
Done == pc[1] = "done"
TheCall == op[1]
TheRes == res[1]
TheNs == NsOf(TheCall)
TheKey == KeyOf(TheCall)
ValidPath == parse_path(TheCall.path).ok

\* the table of namespace ns in the file system f with inode contents st
TableAt(f, st, ns) == IF f[ns] = NoFile THEN EmptyTable ELSE st[f[ns]]
TableNow(ns) == TableAt(files, store, ns)
TableBefore(ns) == TableAt(pre.files, pre.store, ns)
\* every namespace's file and stored keys are as they were before the call
FilesAndKeysUnchanged ==
  \A ns \in Namespaces :
    /\ (files[ns] = NoFile) = (pre.files[ns] = NoFile)
    /\ TableNow(ns) = TableBefore(ns)
CacheUnchanged == pools = pre.pools

\* C1: init_ns(ns) on a namespace without a backing file returns Ok(true) and
\* leaves a backing file and an open cached pool; init_ns(ns) on a namespace
\* whose file exists fails with NamespaceAlreadyExists and changes no file,
\* cache entry or stored key; and a file, once there, stays until a delete_ns
\* (so every init_ns after the first, with no delete_ns between, fails).
TheoremC1 ==
  Done =>
    /\ (TheCall.kind = "init_ns" /\ pre.files[TheNs] = NoFile) =>
         /\ TheRes = Ok(True)
         /\ files[TheNs] # NoFile
         /\ pools[TheNs] # NoHandle
         /\ hOpen[pools[TheNs]]
         /\ hInode[pools[TheNs]] = files[TheNs]
    /\ (TheCall.kind = "init_ns" /\ pre.files[TheNs] # NoFile) =>
         /\ TheRes = Err("NamespaceAlreadyExists")
         /\ FilesAndKeysUnchanged
         /\ CacheUnchanged
    /\ TheCall.kind # "delete_ns" =>
         \A ns \in Namespaces : pre.files[ns] # NoFile => files[ns] = pre.files[ns]

\* a second init_ns has failed on a namespace that holds keys
WitnessC1 ==
  /\ Done
  /\ TheCall.kind = "init_ns"
  /\ TheRes = Err("NamespaceAlreadyExists")
  /\ pools[TheNs] # NoHandle
  /\ DOMAIN TableNow(TheNs) # {}

\* C2: in an existing namespace, a get(p) that follows a successful set(p, v)
\* with no write to p in between (only reads of p and failed sets of p)
\* returns v, read back at v's type; a set(p, v2) that follows it in the same
\* way fails with ValueAlreadyExists, changes no stored key and leaves v
\* stored under the key of p.
TheoremC2 ==
  (Done /\ lastOk.kind = "set") =>
    /\ (TheCall.kind = "get" /\ TheCall.ty = lastOk.val.ty) => TheRes = Ok(lastOk.val)
    /\ TheCall.kind = "set" =>
         /\ TheRes = Err("ValueAlreadyExists")
         /\ FilesAndKeysUnchanged
         /\ TheKey \in DOMAIN TableNow(TheNs)
         /\ from_slice(lastOk.val.ty, TableNow(TheNs)[TheKey]) = [ok |-> TRUE, val |-> lastOk.val]

\* the string "1" has been set and read back
WitnessC2 ==
  /\ Done
  /\ lastOk.kind = "set"
  /\ lastOk.val = StrOne
  /\ TheCall.kind = "get"
  /\ TheRes = Ok(StrOne)

\* C3 (as claimed): in an existing namespace set(ns::k, v) fails with
\* ValueAlreadyExists only if the exact key k is stored; if k is not stored,
\* whatever else is, set stores v under k and returns Ok.
ClaimC3 ==
  (Done /\ TheCall.kind = "set" /\ ValidPath /\ pre.files[TheNs] # NoFile) =>
    /\ TheRes = Err("ValueAlreadyExists") => TheKey \in DOMAIN TableBefore(TheNs)
    /\ TheKey \notin DOMAIN TableBefore(TheNs) =>
         /\ TheRes = Ok(Unit)
         /\ TheKey \in DOMAIN TableNow(TheNs)
         /\ TableNow(TheNs)[TheKey] = to_vec(TheCall.val)

\* C4: overwrite(p, v) on a valid path returns Ok from any state, with or
\* without a backing file, and leaves the namespace with a backing file, an
\* open cached pool on it and v stored under the key, whatever was stored
\* before (an earlier overwrite's value included); a get(p) that follows
\* with no write to p in between returns v.
TheoremC4 ==
  Done =>
    /\ (TheCall.kind = "overwrite" /\ ValidPath) =>
         /\ TheRes = Ok(Unit)
         /\ files[TheNs] # NoFile
         /\ pools[TheNs] # NoHandle
         /\ hOpen[pools[TheNs]]
         /\ hInode[pools[TheNs]] = files[TheNs]
         /\ TheKey \in DOMAIN TableNow(TheNs)
         /\ TableNow(TheNs)[TheKey] = to_vec(TheCall.val)
    /\ (TheCall.kind = "get" /\ lastOk.kind = "overwrite" /\ TheCall.ty = lastOk.val.ty) =>
         TheRes = Ok(lastOk.val)

\* an overwrite has replaced the different value of the overwrite before it
WitnessC4 ==
  /\ Done
  /\ TheCall.kind = "overwrite"
  /\ lastOk.kind = "overwrite"
  /\ lastOk.val # TheCall.val
  /\ TheRes = Ok(Unit)
  /\ TableBefore(TheNs)[TheKey] = to_vec(lastOk.val)

\* s begins with k, letters compared without regard to ASCII case
BeginsWithNoCase(s, k) ==
  /\ Len(s) >= Len(k)
  /\ \A i \in 1..Len(k) : Upper(s[i]) = Upper(k[i])

\* s is k, or k followed by the group separator and more
IsOrIsUnder(s, k) ==
  \/ s = k
  \/ /\ Len(s) > Len(k)
     /\ SubSeq(s, 1, Len(k)) = k
     /\ s[Len(k) + 1] = "."

ClaimC6 ==
  (Done /\ TheCall.kind = "exists") =>
    IF ValidPath
    THEN TheRes = Ok(Bool(/\ pre.files[TheNs] # NoFile
                          /\ \E k \in DOMAIN TableBefore(TheNs) : IsOrIsUnder(k, TheKey)))
    ELSE TheRes = Ok(Bool(TheCall.path \in Namespaces /\ pre.files[TheCall.path] # NoFile))

\* C7: on a namespace with neither a backing file nor a cached pool, get, set
\* and delete (on a path with "::") and manual_cleanup fail with
\* NamespaceNotFound, exists returns false, and the call creates no file and
\* no cache entry; a backing file that was not there when a call started is
\* there only during or after an init_ns or an overwrite of that namespace.
TheoremC7 ==
  /\ (/\ Done
      /\ \/ TheCall.kind \in {"get", "set", "delete"} /\ ValidPath
         \/ TheCall.kind = "manual_cleanup"
      /\ pre.files[TheNs] = NoFile
      /\ pre.pools[TheNs] = NoHandle) =>
       /\ TheRes = Err("NamespaceNotFound")
       /\ files = pre.files
       /\ pools = pre.pools
  /\ (/\ Done
      /\ TheCall.kind = "exists"
      /\ LET ns == IF ValidPath THEN TheNs ELSE TheCall.path
         IN  pre.files[ns] = NoFile /\ pre.pools[ns] = NoHandle) =>
       /\ TheRes = Ok(False)
       /\ files = pre.files
       /\ pools = pre.pools
  /\ \A ns \in Namespaces :
       (pre.files[ns] = NoFile /\ files[ns] # NoFile) =>
         (TheCall.kind \in {"init_ns", "overwrite"} /\ TheNs = ns)

\* a get on a namespace that is not there has failed while another namespace
\* exists
WitnessC7 ==
  /\ Done
  /\ TheCall.kind = "get"
  /\ ValidPath
  /\ pre.files[TheNs] = NoFile
  /\ TheRes = Err("NamespaceNotFound")
  /\ \E ns \in Namespaces : files[ns] # NoFile

\* C8: in an existing namespace delete(p) returns Ok; every key other than
\* the key of p keeps its value, the key of p is not stored afterwards and no
\* key is added; so deleting a key that is not stored changes nothing, and a
\* delete(p) after a delete(p), with no write to p in between, changes nothing.
TheoremC8 ==
  (Done /\ TheCall.kind = "delete" /\ ValidPath /\ pre.files[TheNs] # NoFile) =>
    /\ TheRes = Ok(Unit)
    /\ files[TheNs] = pre.files[TheNs]
    /\ DOMAIN TableNow(TheNs) = DOMAIN TableBefore(TheNs) \ {TheKey}
    /\ \A k \in DOMAIN TableNow(TheNs) : TableNow(TheNs)[k] = TableBefore(TheNs)[k]
    /\ \A ns \in Namespaces \ {TheNs} :
         (files[ns] = NoFile) = (pre.files[ns] = NoFile) /\ TableNow(ns) = TableBefore(ns)
    /\ TheKey \notin DOMAIN TableBefore(TheNs) => FilesAndKeysUnchanged
    /\ lastOk.kind = "delete" => FilesAndKeysUnchanged

\* a stored key has been deleted and a key that begins with it is still there
WitnessC8 ==
  /\ Done
  /\ TheCall.kind = "delete"
  /\ TheRes = Ok(Unit)
  /\ TheKey \in DOMAIN TableBefore(TheNs)
  /\ \E k \in DOMAIN TableNow(TheNs) : IsOrIsUnder(k, TheKey)

\* C9: after delete_ns(ns) has returned Ok the backing file of ns is gone and
\* the cache has no entry for ns (so that an init_ns(ns) then succeeds, C1);
\* delete_ns(ns) on a namespace without a backing file fails with
\* NamespaceNotFound; in both cases the pool that was cached for ns is out of
\* the cache and closed.
TheoremC9 ==
  (Done /\ TheCall.kind = "delete_ns") =>
    /\ TheRes = Ok(True) => (files[TheNs] = NoFile /\ pools[TheNs] = NoHandle)
    /\ pre.files[TheNs] # NoFile => TheRes = Ok(True)
    /\ pre.files[TheNs] = NoFile => (TheRes = Err("NamespaceNotFound") /\ files = pre.files)
    /\ pools[TheNs] = NoHandle
    /\ pre.pools[TheNs] # NoHandle => ~hOpen[pre.pools[TheNs]]
    /\ \A ns \in Namespaces \ {TheNs} :
         files[ns] = pre.files[ns] /\ pools[ns] = pre.pools[ns] /\ TableNow(ns) = TableBefore(ns)

\* delete_ns has removed the file of a namespace whose pool was cached
WitnessC9 ==
  /\ Done
  /\ TheCall.kind = "delete_ns"
  /\ TheRes = Ok(True)
  /\ pre.pools[TheNs] # NoHandle
  /\ DOMAIN TableBefore(TheNs) # {}

\* ===================================================================
\* Properties of concurrent runs (ConcSpec)
\* ===================================================================
AllResting == \A p \in Procs : Resting(p)
\* the callers that have made a call; when ncalls is their number, op shows
\* every call of the run
Callers == {p \in Procs : op[p].kind # "none"}
OneCallEach == ncalls = Cardinality(Callers)

\* C10 (as claimed): when delete_ns(ns) ran together with get, set, delete,
\* exists or manual_cleanup calls on ns only, has returned Ok, and all calls
\* have finished, ns has no backing file and the cache holds no pool for ns.
ClaimC10 ==
  (/\ AllResting
   /\ OneCallEach
   /\ \A p \in Callers :
        op[p].kind \in {"delete_ns", "get", "set", "delete", "exists", "manual_cleanup"}
   /\ \E p \in Callers : op[p].kind = "delete_ns" /\ res[p] = Ok(True)) =>
    /\ files[ConcNs] = NoFile
    /\ pools[ConcNs] = NoHandle

\* C14 (as claimed): no caller is at a store I/O call on a pool (db::connect,
\* pool.close) while it holds the pools mutex.
ClaimC14 ==
  \A p \in Procs :
    pc[p] \in {"gp_connect", "in_connect", "dn_close"} => lock # p

\* In ConcSpec `pre` stays what it was in the initial state.
\* C15 (as claimed): when two or more overwrite and init_ns calls on a
\* namespace that had no backing file have run together and finished, every
\* overwrite has returned Ok.
ClaimC15 ==
  (/\ AllResting
   /\ OneCallEach
   /\ Cardinality(Callers) >= 2
   /\ pre.files[ConcNs] = NoFile
   /\ \A p \in Callers : op[p].kind \in {"overwrite", "init_ns"}) =>
    \A p \in Callers : op[p].kind = "overwrite" => res[p] = Ok(Unit)

\* C16: when two or more set calls on the same key, which was not stored in
\* the existing namespace, have run together and finished, exactly one has
\* returned Ok, every other has failed (ValueAlreadyExists, or the store's
\* error for the PRIMARY KEY), and the value stored under the key is the one
\* of the call that returned Ok.
TheoremC16 ==
  (/\ AllResting
   /\ OneCallEach
   /\ Cardinality(Callers) >= 2
   /\ \A p \in Callers : op[p].kind = "set"
   /\ pre.files[ConcNs] # NoFile
   /\ \A p \in Callers : KeyOf(op[p]) \notin DOMAIN TableBefore(ConcNs)) =>
    /\ Cardinality({p \in Callers : res[p].ok}) = 1
    /\ \A p \in Callers :
         IF res[p].ok
         THEN /\ KeyOf(op[p]) \in DOMAIN TableNow(ConcNs)
              /\ TableNow(ConcNs)[KeyOf(op[p])] = to_vec(op[p].val)
         ELSE res[p].err \in {"ValueAlreadyExists", "DatabaseError"}

\* two sets with different values have both passed the existence check; one
\* has been refused by the store and the other's value is stored
WitnessC16 ==
  /\ AllResting
  /\ OneCallEach
  /\ Cardinality(Callers) = 2
  /\ \A p \in Callers : op[p].kind = "set"
  /\ op[1].val # op[2].val
  /\ \E p \in Callers : res[p] = Err("DatabaseError")
  /\ \E p \in Callers : res[p] = Ok(Unit) /\ TableNow(ConcNs)[KeyOf(op[p])] = to_vec(op[p].val)

\* the open pools; in ConcSpec every pool is one of namespace ConcNs
OpenHandles == {h \in Handles : hOpen[h]}
\* a pool on its way into the cache (init_ns before its insert) or out of it
\* (delete_ns before its close)
InTransit(h) == \E p \in Procs : pc[p] \in {"in_insert", "dn_close"} /\ pool[p] = h

\* C18 (as claimed): in every state the namespace has at most one open pool,
\* and an open pool is the one the cache refers to, unless it is just being
\* inserted by init_ns or closed by delete_ns.
ClaimC18 ==
  /\ Cardinality(OpenHandles) <= 1
  /\ \A h \in OpenHandles : pools[ConcNs] = h \/ InTransit(h)

\* the positions at which a caller runs a statement on its pool
StatementPositions ==
  {"get_query", "set_exists", "set_insert", "ow_query", "del_query", "ex_query", "mc_vacuum"}

\* C19 (as claimed): a caller that is about to run a statement holds a pool
\* that has not been closed.
ClaimC19 ==
  \A p \in Procs : pc[p] \in StatementPositions => hOpen[pool[p]]

\* ===================================================================
\* Properties of runs with malformed paths (PathSpec)
\* ===================================================================
\* C11 (as claimed): get, set, overwrite and delete reject a path without
\* "::" and a path with nothing after "::" with InvalidPath, and the rejected
\* call changes no file, no cache entry and no stored key.
ClaimC11 ==
  (/\ Done
   /\ TheCall.kind \in {"get", "set", "overwrite", "delete"}
   /\ (~ValidPath \/ TheKey = <<>>)) =>
    /\ TheRes = Err("InvalidPath")
    /\ FilesAndKeysUnchanged
    /\ CacheUnchanged

\* ===================================================================
\* Properties of the background cleanup task (SchedSpec, TouchSpec,
\* FairSchedSpec)
\* ===================================================================
\* C12 (as claimed): the task compacts a namespace only when no get, set,
\* overwrite, delete or exists call has been made on it for longer than
\* idle_timeout before the compaction starts.
ClaimC12 ==
  (/\ spc = "vacuum"
   /\ touched[cur.ns] # NoTime
   /\ touched[cur.ns] <= cur.now) =>
    cur.now - touched[cur.ns] > IdleTimeout

\* the positions of the running task
SchedPositions == {"tick", "lock", "snapshot", "la_lock", "loop", "vacuum"}

\* C17: the task holds the pools mutex only while it copies the cache, not in
\* the body of the tick; after a compaction attempt on a namespace, failed or
\* not, the namespace's marker is the time at which that attempt started and
\* the task is still running; and an attempt on a namespace starts more than
\* idle_timeout after the start of the attempt before it.
TheoremC17 ==
  /\ spc \in SchedPositions
  /\ lock = SchedId <=> spc = "snapshot"
  /\ \A ns \in Namespaces : vacs[ns].at # NoTime => last_access[ns] = vacs[ns].at
  /\ (spc = "vacuum" /\ vacs[cur.ns].at # NoTime) =>
       cur.now - vacs[cur.ns].at > IdleTimeout

\* a second compaction of a namespace has started
WitnessC17 ==
  /\ spc = "vacuum"
  /\ vacs[cur.ns].at # NoTime
  /\ lock # SchedId

\* C20: a caller holds the pools mutex only at a position where it does not
\* lock it again, and the task only while it copies the cache, before it
\* locks last_access; under fair scheduling every call that has been invoked
\* returns and every tick of the task that has begun completes (at every
\* time the caller is, or will again be, between calls, and the task is, or
\* will again be, waiting for its next tick).
TheoremC20 ==
  /\ [](\A p \in Procs : lock = p => pc[p] \in {"gp_connect", "dn_close"})
  /\ [](lock = SchedId => spc = "snapshot")
  /\ \A p \in Procs : []<>Resting(p)
  /\ []<>(spc = "tick")

\* overwrite is in get_pool_or_init's second get_pool, after its init_ns, and
\* waits for the mutex while the task holds it
WitnessC20 ==
  /\ \E p \in Procs : op[p].kind = "overwrite" /\ again[p] /\ pc[p] = "gp_lock"
  /\ lock = SchedId

\* ===================================================================
\* Properties of list (ListSpec)
\* ===================================================================
\* the segments of a key, split at the group separator
RECURSIVE Segments(_)
Segments(s) ==
  LET d == DotIndex(s)
  IN  IF d = 0 THEN <<s>>
      ELSE <<SubSeq(s, 1, d - 1)>> \o Segments(SubSeq(s, d + 1, Len(s)))

\* the group path a listed path names: no segments for a namespace's root
GroupPath(path) ==
  IF SepIndex(path) = 0 \/ parse_path(path).key = <<>>
  THEN <<>> ELSE Segments(parse_path(path).key)

\* key k lies below group path g
Below(k, g) ==
  /\ Len(Segments(k)) > Len(g)
  /\ SubSeq(Segments(k), 1, Len(g)) = g

Range(seq) == {seq[i] : i \in 1..Len(seq)}
NoDuplicates(seq) == \A i, j \in 1..Len(seq) : i # j => seq[i] # seq[j]

====
